---- MODULE Spec2Model ----
(***************************************************************************)
(* Model of app.py: the estimation engine (Params and estimate()) and the  *)
(* Streamlit page that calls it and caches its last result.                *)
(*                                                                         *)
(* Python floats are IEEE-754 doubles.  A finite double is modelled as a   *)
(* record [sign, man, exp] of value sign * man * 2^exp, where man is a     *)
(* natural number of exactly 53 bits (or 0), held as a sequence of 15-bit  *)
(* limbs, least significant first.  Every arithmetic operation computes    *)
(* the exact result and rounds it to the nearest double, ties to even, as  *)
(* the hardware does.  Subnormals, overflow and NaN do not arise for the   *)
(* magnitudes of this program and are not modelled.                        *)
(***************************************************************************)
EXTENDS Integers, Sequences, FiniteSets, TLC

\* the latest call of estimate: its arguments, its progress and its result
VARIABLES in_N, in_km, in_p, pc, out

\* the page: st.session_state, the values the two keyless number inputs
\* returned and the value= arguments they were created with in the latest
\* script run, and what the right column shows after it
VARIABLES session_state, number_input, value, page

vars == <<in_N, in_km, in_p, pc, out, session_state, number_input, value, page>>

(***************************************************************************)
(* Bounds of the explored inputs.                                          *)
(***************************************************************************)
MaxN == 3
MaxKmSteps == 10

(***************************************************************************)
(* Natural numbers of any size: sequences of limbs in base 2^15, least     *)
(* significant first, without leading zero limbs (0 is the empty one).     *)
(***************************************************************************)
Limb == 32768

LimbBits == 15

Abs(x) == IF x < 0 THEN -x ELSE x

Max(x, y) == IF x >= y THEN x ELSE y

Pow2(i) ==
    <<1, 2, 4, 8, 16, 32, 64, 128, 256, 512, 1024, 2048, 4096, 8192, 16384, 32768>>[i + 1]

Rest(a) == IF a = <<>> THEN <<>> ELSE Tail(a)

Low(a) == IF a = <<>> THEN 0 ELSE a[1]

RECURSIVE BNorm(_)
BNorm(a) ==
    IF a = <<>> THEN <<>>
    ELSE IF a[Len(a)] = 0 THEN BNorm(SubSeq(a, 1, Len(a) - 1))
    ELSE a

RECURSIVE FromNat(_)
FromNat(n) == IF n = 0 THEN <<>> ELSE <<n % Limb>> \o FromNat(n \div Limb)

RECURSIVE ToNat(_)
ToNat(a) == IF a = <<>> THEN 0 ELSE a[1] + Limb * ToNat(Tail(a))

RECURSIVE BAddC(_, _, _)
BAddC(a, b, c) ==
    IF a = <<>> /\ b = <<>>
    THEN IF c = 0 THEN <<>> ELSE <<c>>
    ELSE LET x == Low(a) + Low(b) + c
         IN  <<x % Limb>> \o BAddC(Rest(a), Rest(b), x \div Limb)

BAdd(a, b) == BAddC(a, b, 0)

\* a - b - c for a >= b + c
RECURSIVE BSubC(_, _, _)
BSubC(a, b, c) ==
    IF a = <<>> THEN <<>>
    ELSE LET x == a[1] - Low(b) - c
         IN  IF x < 0
             THEN <<x + Limb>> \o BSubC(Tail(a), Rest(b), 1)
             ELSE <<x>> \o BSubC(Tail(a), Rest(b), 0)

BSub(a, b) == BNorm(BSubC(a, b, 0))

\* -1, 0 or 1 as a < b, a = b or a > b
RECURSIVE BCmpFrom(_, _, _)
BCmpFrom(a, b, i) ==
    IF i = 0 THEN 0
    ELSE IF a[i] < b[i] THEN -1
    ELSE IF a[i] > b[i] THEN 1
    ELSE BCmpFrom(a, b, i - 1)

BCmp(a, b) ==
    IF Len(a) < Len(b) THEN -1
    ELSE IF Len(a) > Len(b) THEN 1
    ELSE BCmpFrom(a, b, Len(a))

\* a * k + c for a limb k
RECURSIVE BMulSmall(_, _, _)
BMulSmall(a, k, c) ==
    IF a = <<>>
    THEN IF c = 0 THEN <<>> ELSE <<c>>
    ELSE LET x == a[1] * k + c
         IN  <<x % Limb>> \o BMulSmall(Tail(a), k, x \div Limb)

ShiftLimb(a) == IF a = <<>> THEN <<>> ELSE <<0>> \o a

RECURSIVE BMul(_, _)
BMul(a, b) ==
    IF a = <<>> \/ b = <<>> THEN <<>>
    ELSE BAdd(BNorm(BMulSmall(a, b[1], 0)), ShiftLimb(BMul(a, Tail(b))))

RECURSIVE ShiftLimbs(_, _)
ShiftLimbs(a, n) == IF n = 0 THEN a ELSE ShiftLimbs(ShiftLimb(a), n - 1)

\* a * 2^k
BShl(a, k) == ShiftLimbs(BMulSmall(a, Pow2(k % LimbBits), 0), k \div LimbBits)

\* a \div 2^k
BShr(a, k) ==
    LET n == k \div LimbBits
        r == k % LimbBits
        b == IF n >= Len(a) THEN <<>> ELSE SubSeq(a, n + 1, Len(a))
    IN  BNorm([ i \in 1 .. Len(b) |->
                  (b[i] \div Pow2(r))
                  + (IF i < Len(b) THEN (b[i + 1] % Pow2(r)) * Pow2(LimbBits - r) ELSE 0) ])

RECURSIVE BitLenSmall(_)
BitLenSmall(n) == IF n = 0 THEN 0 ELSE 1 + BitLenSmall(n \div 2)

BitLen(a) == IF a = <<>> THEN 0 ELSE LimbBits * (Len(a) - 1) + BitLenSmall(a[Len(a)])

IsOdd(a) == Low(a) % 2 = 1

\* the largest digit d with b * d <= r, for r < b * 2^15, found bit by bit
RECURSIVE QuotientDigit(_, _, _, _)
QuotientDigit(r, b, i, d) ==
    IF i < 0 THEN d
    ELSE IF BCmp(BNorm(BMulSmall(b, d + Pow2(i), 0)), r) <= 0
         THEN QuotientDigit(r, b, i - 1, d + Pow2(i))
         ELSE QuotientDigit(r, b, i - 1, d)

\* long division, limb i of a down to limb 1; r and q are the remainder and
\* the quotient of the limbs above i
RECURSIVE LongDivision(_, _, _, _, _)

LongDivisionDigit(a, b, i, r1, q, d) ==
    LongDivision(a, b, i - 1, BSub(r1, BNorm(BMulSmall(b, d, 0))), <<d>> \o q)

LongDivisionStep(a, b, i, r1, q) ==
    LongDivisionDigit(a, b, i, r1, q, QuotientDigit(r1, b, LimbBits - 1, 0))

LongDivision(a, b, i, r, q) ==
    IF i = 0 THEN <<BNorm(q), r>>
    ELSE LongDivisionStep(a, b, i, BNorm(<<a[i]>> \o r), q)

\* <<a \div b, a % b>> for b > 0
BDivMod(a, b) == LongDivision(a, b, Len(a), <<>>, <<>>)

(***************************************************************************)
(* Exact dyadic values sign * man * 2^exp (any man), and their rounding    *)
(* to the nearest double.                                                  *)
(***************************************************************************)
ManBits == 53

Zero == [sign |-> 1, man |-> <<>>, exp |-> 0]

\* float("inf")
Inf == [sign |-> 1, man |-> <<>>, exp |-> 1024]

DInt(n) == [sign |-> IF n < 0 THEN -1 ELSE 1, man |-> FromNat(Abs(n)), exp |-> 0]

DNeg(a) == IF a.man = <<>> THEN a ELSE [a EXCEPT !.sign = -a.sign]

DMul(a, b) ==
    IF a.man = <<>> \/ b.man = <<>> THEN Zero
    ELSE [sign |-> a.sign * b.sign, man |-> BMul(a.man, b.man), exp |-> a.exp + b.exp]

Min(x, y) == IF x <= y THEN x ELSE y

\* the sum of sa * ma * 2^e and sb * mb * 2^e, c comparing ma with mb
DAddSigned(sa, ma, sb, mb, e, c) ==
    IF sa = sb THEN [sign |-> sa, man |-> BAdd(ma, mb), exp |-> e]
    ELSE IF c = 0 THEN Zero
    ELSE IF c > 0 THEN [sign |-> sa, man |-> BSub(ma, mb), exp |-> e]
    ELSE [sign |-> sb, man |-> BSub(mb, ma), exp |-> e]

DAddAligned(sa, ma, sb, mb, e) == DAddSigned(sa, ma, sb, mb, e, BCmp(ma, mb))

DAdd(a, b) ==
    IF a.man = <<>> THEN b
    ELSE IF b.man = <<>> THEN a
    ELSE DAddAligned(a.sign, BShl(a.man, a.exp - Min(a.exp, b.exp)),
                     b.sign, BShl(b.man, b.exp - Min(a.exp, b.exp)),
                     Min(a.exp, b.exp))

SignOf(d) == IF d.man = <<>> THEN 0 ELSE d.sign

\* -1, 0 or 1 as a < b, a = b or a > b
DCmp(a, b) == SignOf(DAdd(a, DNeg(b)))

\* the mantissa q and exponent e after rounding: a carry out of 53 bits
\* moves one binade up
Carry(s, q, e) ==
    IF BitLen(q) > ManBits
    THEN [sign |-> s, man |-> BShr(q, 1), exp |-> e + 1]
    ELSE [sign |-> s, man |-> q, exp |-> e]

\* c compares the dropped bits with one half of the last kept place
RoundHalfEven(s, q, e, c) ==
    IF c > 0 \/ (c = 0 /\ IsOdd(q)) THEN Carry(s, BAdd(q, <<1>>), e) ELSE Carry(s, q, e)

\* q is man without its k lowest bits
RoundDropped(d, k, q) ==
    RoundHalfEven(d.sign, q, d.exp + k,
                  BCmp(BSub(d.man, BShl(q, k)), BShl(<<1>>, k - 1)))

\* k is the number of bits of man beyond 53
RoundBits(d, k) ==
    IF k <= 0 THEN [sign |-> d.sign, man |-> BShl(d.man, -k), exp |-> d.exp + k]
    ELSE RoundDropped(d, k, BShr(d.man, k))

\* round to nearest, ties to even
Round(d) == IF d.man = <<>> THEN Zero ELSE RoundBits(d, BitLen(d.man) - ManBits)

(***************************************************************************)
(* Float arithmetic.                                                       *)
(***************************************************************************)
\* float(n) of an int
FromInt(n) == Round(DInt(n))

FMul(a, b) == Round(DMul(a, b))

FAdd(a, b) == Round(DAdd(a, b))

FSub(a, b) == Round(DAdd(a, DNeg(b)))

\* the quotient h[1] and whether a remainder h[2] is left (a sticky bit), rounded
FDivRound(s, e, h) ==
    Round([sign |-> s, exp |-> e,
           man |-> BAdd(BAdd(h[1], h[1]), IF h[2] = <<>> THEN <<>> ELSE <<1>>)])

\* a / b for doubles a and b # 0
FDiv(a, b) ==
    IF a.man = <<>> THEN Zero
    ELSE FDivRound(a.sign * b.sign, a.exp - b.exp - ManBits - 2,
                   BDivMod(BShl(a.man, ManBits + 1), b.man))

\* the double of a decimal literal n / d
Dec(n, d) == FDiv(FromInt(n), FromInt(d))

FLt(a, b) == DCmp(a, b) < 0

FLe(a, b) == DCmp(a, b) <= 0

FGt(a, b) == DCmp(a, b) > 0

FGe(a, b) == DCmp(a, b) >= 0

\* the integer part of |a|, and whether a has a fractional part
IntPart(a) == IF a.exp >= 0 THEN ToNat(BShl(a.man, a.exp)) ELSE ToNat(BShr(a.man, -a.exp))

HasFraction(a) == a.exp < 0 /\ BShl(BShr(a.man, -a.exp), -a.exp) # a.man

\* math.ceil of a finite double
Ceil(a) ==
    IF a.sign > 0
    THEN IntPart(a) + (IF HasFraction(a) THEN 1 ELSE 0)
    ELSE -IntPart(a)

\* int() of a finite double: truncation toward zero
Trunc(a) == a.sign * IntPart(a)

(***************************************************************************)
(* class Params: the defaults.                                             *)
(***************************************************************************)
DefaultParams ==
    [ charging_window_hours       |-> FromInt(10),
      working_days                |-> 240,
      ac_rotation                 |-> 2,
      dc_rotation                 |-> 6,
      ac_power_effective_kw       |-> FromInt(11),
      dc30_power_kw               |-> FromInt(30),
      dc60_power_kw               |-> FromInt(60),
      ac22_acq_eur                |-> FromInt(1500),
      ac22_ins_eur                |-> FromInt(1600),
      dc30_acq_eur                |-> FromInt(8500),
      dc30_ins_eur                |-> FromInt(7500),
      dc60_acq_eur                |-> FromInt(16000),
      dc60_ins_eur                |-> FromInt(7500),
      ev_kwh_per_km               |-> Dec(22, 100),
      energy_internal_eur_per_kwh |-> Dec(22, 100),
      diesel_km_per_l             |-> FromInt(15),
      diesel_eur_per_l            |-> Dec(175, 100),
      diesel_kgco2_per_l          |-> Dec(265, 100),
      trees_per_ton_co2           |-> 50,
      payback_threshold_years     |-> FromInt(4),
      peak_factor                 |-> Dec(125, 100) ]

(***************************************************************************)
(* estimate(N, km_per_vehicle_year, p), stage by stage.                    *)
(***************************************************************************)
NeedsDcInclusive(kwh_per_vehicle_day) == FGe(kwh_per_vehicle_day, FromInt(55))

\* needs_dc = kwh_per_vehicle_day > 55.0
NeedsDc(kwh_per_vehicle_day) == FGt(kwh_per_vehicle_day, FromInt(55))

\* use_dc60 = kwh_per_vehicle_day > 90.0
UseDc60(kwh_per_vehicle_day) == FGt(kwh_per_vehicle_day, FromInt(90))

QByRotationFloor(N, rotation) == Trunc(FDiv(FromInt(N), FromInt(rotation)))

\* ceil(N / rotation)
QByRotation(N, rotation) == Ceil(FDiv(FromInt(N), FromInt(rotation)))

QByEnergyFloor(kwh_total_day_peak, kwh_station_day) ==
    IF FGt(kwh_total_day_peak, Zero)
    THEN Trunc(FDiv(kwh_total_day_peak, kwh_station_day))
    ELSE 0

\* ceil(kwh_total_day_peak / kwh_station_day) if kwh_total_day_peak > 0 else 0
QByEnergy(kwh_total_day_peak, kwh_station_day) ==
    IF FGt(kwh_total_day_peak, Zero)
    THEN Ceil(FDiv(kwh_total_day_peak, kwh_station_day))
    ELSE 0

\* the branch "if not needs_dc"
SizingAC(N, kwh_total_day_peak, p) ==
    LET kwh_ac_day    == FMul(p.ac_power_effective_kw, p.charging_window_hours)
        q_by_rotation == QByRotation(N, p.ac_rotation)
        q_by_energy   == QByEnergy(kwh_total_day_peak, kwh_ac_day)
        q             == Max(q_by_rotation, q_by_energy)
    IN  [ capex  |-> FMul(FromInt(q), FAdd(p.ac22_acq_eur, p.ac22_ins_eur)),
          sizing |-> [ hardware            |-> "AC 22kW (eff. 11kW)",
                       points              |-> q,
                       by_rotation         |-> q_by_rotation,
                       by_energy           |-> q_by_energy,
                       kwh_per_station_day |-> kwh_ac_day ] ]

\* the branch "if use_dc60"
SizingDC60(N, kwh_total_day_peak, p) ==
    LET kwh_dc60_day  == FMul(p.dc60_power_kw, p.charging_window_hours)
        q_by_rotation == QByRotation(N, p.dc_rotation)
        q_by_energy   == QByEnergy(kwh_total_day_peak, kwh_dc60_day)
        q             == Max(q_by_rotation, q_by_energy)
    IN  [ capex  |-> FMul(FromInt(q), FAdd(p.dc60_acq_eur, p.dc60_ins_eur)),
          sizing |-> [ hardware            |-> "DC 60kW",
                       points              |-> q,
                       by_rotation         |-> q_by_rotation,
                       by_energy           |-> q_by_energy,
                       kwh_per_station_day |-> kwh_dc60_day ] ]

SizingDC30WithDc60Cost(N, kwh_total_day_peak, p) ==
    LET kwh_dc30_day  == FMul(p.dc30_power_kw, p.charging_window_hours)
        q_by_rotation == QByRotation(N, p.dc_rotation)
        q_by_energy   == QByEnergy(kwh_total_day_peak, kwh_dc30_day)
        q             == Max(q_by_rotation, q_by_energy)
    IN  [ capex  |-> FMul(FromInt(q), FAdd(p.dc60_acq_eur, p.dc60_ins_eur)),
          sizing |-> [ hardware            |-> "DC 30kW",
                       points              |-> q,
                       by_rotation         |-> q_by_rotation,
                       by_energy           |-> q_by_energy,
                       kwh_per_station_day |-> kwh_dc30_day ] ]

\* the branch "else" of "if use_dc60"
SizingDC30(N, kwh_total_day_peak, p) ==
    LET kwh_dc30_day  == FMul(p.dc30_power_kw, p.charging_window_hours)
        q_by_rotation == QByRotation(N, p.dc_rotation)
        q_by_energy   == QByEnergy(kwh_total_day_peak, kwh_dc30_day)
        q             == Max(q_by_rotation, q_by_energy)
    IN  [ capex  |-> FMul(FromInt(q), FAdd(p.dc30_acq_eur, p.dc30_ins_eur)),
          sizing |-> [ hardware            |-> "DC 30kW",
                       points              |-> q,
                       by_rotation         |-> q_by_rotation,
                       by_energy           |-> q_by_energy,
                       kwh_per_station_day |-> kwh_dc30_day ] ]

DieselLitersYearFloorDiv(km_total_year, p) ==
    IF FGt(p.diesel_km_per_l, Zero)
    THEN FromInt(Trunc(FDiv(km_total_year, p.diesel_km_per_l)))
    ELSE Zero

\* km_total_year / p.diesel_km_per_l if p.diesel_km_per_l > 0 else 0.0
DieselLitersYear(km_total_year, p) ==
    IF FGt(p.diesel_km_per_l, Zero)
    THEN FDiv(km_total_year, p.diesel_km_per_l)
    ELSE Zero

PaybackYearsNonZeroGuard(capex, delta_fossil_year) ==
    IF delta_fossil_year.man # <<>> THEN FDiv(capex, delta_fossil_year) ELSE Inf

\* (capex / delta_fossil_year) if delta_fossil_year > 0 else float("inf")
PaybackYears(capex, delta_fossil_year) ==
    IF FGt(delta_fossil_year, Zero) THEN FDiv(capex, delta_fossil_year) ELSE Inf

DecisionStrict(delta_fossil_year, payback_years, p) ==
    IF FGt(delta_fossil_year, Zero) /\ FLt(payback_years, p.payback_threshold_years)
    THEN "GO" ELSE "NO-GO"

\* "GO" if (delta_fossil_year > 0 and payback_years <= threshold) else "NO-GO"
Decision(delta_fossil_year, payback_years, p) ==
    IF FGt(delta_fossil_year, Zero) /\ FLe(payback_years, p.payback_threshold_years)
    THEN "GO" ELSE "NO-GO"

TreesEquivalentRounded(co2_avoided_tons_year, p) ==
    Trunc(FAdd(FMul(co2_avoided_tons_year, FromInt(p.trees_per_ton_co2)), Dec(1, 2)))

\* int(co2_avoided_tons_year * p.trees_per_ton_co2)
TreesEquivalent(co2_avoided_tons_year, p) ==
    Trunc(FMul(co2_avoided_tons_year, FromInt(p.trees_per_ton_co2)))

EsgRatingExclusive(co2_avoided_tons_year) ==
    IF FGt(co2_avoided_tons_year, FromInt(10)) THEN "AAA"
    ELSE IF FGt(co2_avoided_tons_year, FromInt(3)) THEN "AA"
    ELSE IF FGt(co2_avoided_tons_year, FromInt(1)) THEN "A"
    ELSE "B"

\* the if / elif chain on co2_avoided_tons_year
EsgRating(co2_avoided_tons_year) ==
    IF FGe(co2_avoided_tons_year, FromInt(10)) THEN "AAA"
    ELSE IF FGe(co2_avoided_tons_year, FromInt(3)) THEN "AA"
    ELSE IF FGe(co2_avoided_tons_year, FromInt(1)) THEN "A"
    ELSE "B"

\* the demand figures
Demand(N, km_per_vehicle_year, p) ==
    LET km_total_year       == FMul(FromInt(N), km_per_vehicle_year)
        km_per_vehicle_day  == FDiv(km_per_vehicle_year, FromInt(p.working_days))
        kwh_per_vehicle_day == FMul(km_per_vehicle_day, p.ev_kwh_per_km)
        kwh_total_day_avg   == FMul(FromInt(N), kwh_per_vehicle_day)
    IN  [ km_total_year       |-> km_total_year,
          kwh_total_year      |-> FMul(km_total_year, p.ev_kwh_per_km),
          kwh_per_vehicle_day |-> kwh_per_vehicle_day,
          kwh_total_day_avg   |-> kwh_total_day_avg,
          kwh_total_day_peak  |-> FMul(kwh_total_day_avg, p.peak_factor) ]

\* The divisions of estimate that no conditional guards: each raises
\* ZeroDivisionError on a zero divisor.  d holds the demand figures.
RaisesAfterDemand(N, p, d) ==
    \/ (IF NeedsDc(d.kwh_per_vehicle_day) THEN p.dc_rotation ELSE p.ac_rotation) = 0
    \/ /\ FGt(d.kwh_total_day_peak, Zero)
       /\ FMul(IF ~NeedsDc(d.kwh_per_vehicle_day) THEN p.ac_power_effective_kw
               ELSE IF UseDc60(d.kwh_per_vehicle_day) THEN p.dc60_power_kw
               ELSE p.dc30_power_kw,
               p.charging_window_hours).man = <<>>
    \/ N = 0

RaisesZeroDivision(N, km_per_vehicle_year, p) ==
    \/ p.working_days = 0
    \/ /\ p.working_days # 0
       /\ RaisesAfterDemand(N, p, Demand(N, km_per_vehicle_year, p))

\* the choice of the tier
Sizing(N, kwh_per_vehicle_day, kwh_total_day_peak, p) ==
    IF ~NeedsDc(kwh_per_vehicle_day)
    THEN SizingAC(N, kwh_total_day_peak, p)
    ELSE IF UseDc60(kwh_per_vehicle_day)
         THEN SizingDC60(N, kwh_total_day_peak, p)
         ELSE SizingDC30(N, kwh_total_day_peak, p)

\* Economics (solo energia interna)
Financial(km_total_year, kwh_total_year, capex, p) ==
    LET diesel_liters_year  == DieselLitersYear(km_total_year, p)
        diesel_cost_year    == FMul(diesel_liters_year, p.diesel_eur_per_l)
        ev_energy_cost_year == FMul(kwh_total_year, p.energy_internal_eur_per_kwh)
        delta_fossil_year   == FSub(diesel_cost_year, ev_energy_cost_year)
        payback_years       == PaybackYears(capex, delta_fossil_year)
    IN  [ diesel_cost_year_eur    |-> diesel_cost_year,
          ev_energy_cost_year_eur |-> ev_energy_cost_year,
          delta_fossil_year_eur   |-> delta_fossil_year,
          payback_years_hw_only   |-> payback_years,
          decision                |-> Decision(delta_fossil_year, payback_years, p) ]

\* ESG KPIs
EsgMetrics(N, km_total_year, diesel_liters_year, p) ==
    LET co2_avoided_tons_year ==
            FDiv(FMul(diesel_liters_year, p.diesel_kgco2_per_l), FromInt(1000))
        co2_avoided_kg_year   == FMul(co2_avoided_tons_year, FromInt(1000))
    IN  [ diesel_avoided_liters_year      |-> diesel_liters_year,
          co2_avoided_tons_year           |-> co2_avoided_tons_year,
          co2_avoided_kg_per_vehicle_year |-> FDiv(co2_avoided_kg_year, FromInt(N)),
          co2_avoided_g_per_km            |->
              IF FGt(km_total_year, Zero)
              THEN FDiv(FMul(co2_avoided_kg_year, FromInt(1000)), km_total_year)
              ELSE Zero,
          trees_equivalent                |-> TreesEquivalent(co2_avoided_tons_year, p),
          esg_rating                      |-> EsgRating(co2_avoided_tons_year) ]

\* the result, from the demand figures d and the sizing sz
Assemble(N, km_per_vehicle_year, p, d, sz) ==
    [ inputs    |-> [ N                   |-> N,
                      km_per_vehicle_year |-> km_per_vehicle_year,
                      km_total_year       |-> d.km_total_year ],
      energy    |-> [ working_days        |-> p.working_days,
                      kwh_per_vehicle_day |-> d.kwh_per_vehicle_day,
                      kwh_total_day_avg   |-> d.kwh_total_day_avg,
                      kwh_total_day_peak  |-> d.kwh_total_day_peak,
                      kwh_total_year      |-> d.kwh_total_year ],
      sizing    |-> sz.sizing,
      capex     |-> [ capex_eur |-> sz.capex ],
      economics |-> Financial(d.km_total_year, d.kwh_total_year, sz.capex, p),
      esg       |-> EsgMetrics(N, d.km_total_year, DieselLitersYear(d.km_total_year, p), p) ]

Sized(N, km_per_vehicle_year, p, d) ==
    Assemble(N, km_per_vehicle_year, p, d,
             Sizing(N, d.kwh_per_vehicle_day, d.kwh_total_day_peak, p))

estimate(N, km_per_vehicle_year, p) ==
    Sized(N, km_per_vehicle_year, p, Demand(N, km_per_vehicle_year, p))

(***************************************************************************)
(* The calls explored: fleet sizes, yearly distances and configurations.   *)
(***************************************************************************)
FleetSizes == (0 .. MaxN) \cup {8, 11}

Distances == { 10000 * k : k \in 0 .. MaxKmSteps } \cup {1000, 1999, 55000}

\* diesel_km_per_l, diesel_kgco2_per_l
DieselSettings == { <<FromInt(15), Dec(265, 100)>>, <<FromInt(1), FromInt(1)>>, <<Zero, Dec(265, 100)>> }

\* ev_kwh_per_km, energy_internal_eur_per_kwh, diesel_eur_per_l, payback_threshold_years
TariffSettings == { <<Dec(22, 100), Dec(22, 100), Dec(175, 100), FromInt(4)>>,
                    <<Dec(20, 100), Dec(25, 100), Dec(150, 100), FromInt(3)>> }

Configurations ==
    { [ DefaultParams EXCEPT
          !.working_days                = wd,
          !.peak_factor                 = pf,
          !.ac22_ins_eur                = ins,
          !.diesel_km_per_l             = ds[1],
          !.diesel_kgco2_per_l          = ds[2],
          !.ev_kwh_per_km               = tf[1],
          !.energy_internal_eur_per_kwh = tf[2],
          !.diesel_eur_per_l            = tf[3],
          !.payback_threshold_years     = tf[4] ] :
        wd \in {220, 240}, pf \in {FromInt(1), Dec(125, 100)}, ins \in {FromInt(1500), FromInt(1600)},
        ds \in DieselSettings, tf \in TariffSettings }

(***************************************************************************)
(* One call of estimate: it returns its result, or raises.                 *)
(***************************************************************************)
Init ==
    /\ in_N \in FleetSizes
    /\ in_km \in Distances
    /\ in_p \in Configurations
    /\ pc = "call"
    /\ out = <<>>
    /\ session_state = <<>>
    /\ number_input = <<>>
    /\ value = <<>>
    /\ page = <<>>

Estimate ==
    /\ pc = "call"
    /\ IF RaisesZeroDivision(in_N, FromInt(in_km), in_p)
       THEN /\ pc' = "raised"
            /\ out' = <<>>
       ELSE /\ pc' = "returned"
            /\ out' = <<estimate(in_N, FromInt(in_km), in_p)>>
    /\ UNCHANGED <<in_N, in_km, in_p>>
    /\ UNCHANGED <<session_state, number_input, value, page>>

Next == Estimate

Spec == Init /\ [][Next]_vars

Returned == pc = "returned"

Result == out[1]

Economics == Result.economics

SizingResult == Result.sizing

Esg == Result.esg

\* lo / den <= x < hi / den, exactly
Within(x, lo, hi, den) ==
    /\ DCmp(DMul(x, DInt(den)), DInt(lo)) >= 0
    /\ DCmp(DMul(x, DInt(den)), DInt(hi)) < 0

(***************************************************************************)
(* C1: estimate returns "GO" if and only if delta_fossil_year > 0 and      *)
(* payback_years <= payback_threshold_years, and "NO-GO" otherwise.        *)
(***************************************************************************)
C1_DecisionGoIff ==
    Returned =>
        /\ Economics.decision \in {"GO", "NO-GO"}
        /\ Economics.decision = "GO" <=>
              /\ FGt(Economics.delta_fossil_year_eur, Zero)
              /\ Economics.payback_years_hw_only # Inf
              /\ FLe(Economics.payback_years_hw_only, in_p.payback_threshold_years)

\* payback exactly at the threshold, with a positive saving: GO
C1_Witness ==
    /\ Returned
    /\ FGt(Economics.delta_fossil_year_eur, Zero)
    /\ Economics.payback_years_hw_only = in_p.payback_threshold_years
    /\ Economics.decision = "GO"

(***************************************************************************)
(* C2: payback_years is capex / delta_fossil_year when delta_fossil_year   *)
(* is positive, and positive infinity when it is zero or negative.         *)
(***************************************************************************)
C2_PaybackValue ==
    Returned =>
        IF FGt(Economics.delta_fossil_year_eur, Zero)
        THEN /\ Economics.payback_years_hw_only # Inf
             /\ Economics.payback_years_hw_only
                    = FDiv(Result.capex.capex_eur, Economics.delta_fossil_year_eur)
        ELSE Economics.payback_years_hw_only = Inf

\* no distance driven: the saving is exactly zero and the payback infinite
C2_Witness ==
    /\ Returned
    /\ in_km = 0
    /\ Economics.delta_fossil_year_eur = Zero
    /\ Economics.payback_years_hw_only = Inf

(***************************************************************************)
(* C3: the hardware tier is a step function of kwh_per_vehicle_day alone:  *)
(* AC up to and including 55, DC 30kW above 55 up to and including 90,     *)
(* DC 60kW above 90, whatever the configuration, N or the peak demand.     *)
(***************************************************************************)
C3_TierByVehicleDay ==
    Returned =>
        LET k == Result.energy.kwh_per_vehicle_day
            h == SizingResult.hardware
        IN  /\ k = FMul(FDiv(FromInt(in_km), FromInt(in_p.working_days)), in_p.ev_kwh_per_km)
            /\ h = "AC 22kW (eff. 11kW)" <=> DCmp(k, DInt(55)) <= 0
            /\ h = "DC 30kW" <=> (DCmp(k, DInt(55)) > 0 /\ DCmp(k, DInt(90)) <= 0)
            /\ h = "DC 60kW" <=> DCmp(k, DInt(90)) > 0

\* exactly 55 kWh per vehicle and day: still AC
C3_Witness ==
    /\ Returned
    /\ Result.energy.kwh_per_vehicle_day = FromInt(55)
    /\ SizingResult.hardware = "AC 22kW (eff. 11kW)"

(***************************************************************************)
(* C4: for the selected tier, by_rotation is ceil(N / rotation), by_energy *)
(* is ceil(kwh_total_day_peak / kwh_per_station_day) (0 for no demand),    *)
(* points is the larger of the two, so the stations cover both the fleet's *)
(* rotation and the peak energy; all three values are in the result.       *)
(***************************************************************************)
C4_SizingMaxOfConstraints ==
    Returned =>
        LET s    == SizingResult
            ac   == s.hardware = "AC 22kW (eff. 11kW)"
            rot  == IF ac THEN in_p.ac_rotation ELSE in_p.dc_rotation
            kw   == IF ac THEN in_p.ac_power_effective_kw
                    ELSE IF s.hardware = "DC 60kW" THEN in_p.dc60_power_kw
                    ELSE in_p.dc30_power_kw
            peak == Result.energy.kwh_total_day_peak
            cap  == s.kwh_per_station_day
        IN  /\ cap = FMul(kw, in_p.charging_window_hours)
            /\ s.by_rotation * rot >= in_N
            /\ (s.by_rotation - 1) * rot < in_N
            /\ IF DCmp(peak, Zero) > 0
               THEN /\ s.by_energy = Ceil(FDiv(peak, cap))
                    /\ DCmp(DMul(DInt(s.by_energy), cap), peak) >= 0
                    /\ DCmp(DMul(DInt(s.by_energy - 1), cap), peak) < 0
               ELSE s.by_energy = 0
            /\ s.points \in {s.by_rotation, s.by_energy}
            /\ s.points >= s.by_rotation
            /\ s.points >= s.by_energy
            /\ s.points * rot >= in_N
            /\ DCmp(DMul(DInt(s.points), cap), peak) >= 0

\* the energy constraint binds: more stations than rotation alone asks for
C4_Witness ==
    /\ Returned
    /\ SizingResult.by_energy > SizingResult.by_rotation
    /\ SizingResult.points = SizingResult.by_energy

(***************************************************************************)
(* C5: capex_eur is points times (acquisition + installation cost) of the  *)
(* tier named in sizing.hardware, and of no other tier.                    *)
(***************************************************************************)
C5_CapexOfSelectedTier ==
    Returned =>
        LET h    == SizingResult.hardware
            unit == IF h = "AC 22kW (eff. 11kW)"
                    THEN FAdd(in_p.ac22_acq_eur, in_p.ac22_ins_eur)
                    ELSE IF h = "DC 30kW"
                    THEN FAdd(in_p.dc30_acq_eur, in_p.dc30_ins_eur)
                    ELSE FAdd(in_p.dc60_acq_eur, in_p.dc60_ins_eur)
        IN  /\ h \in {"AC 22kW (eff. 11kW)", "DC 30kW", "DC 60kW"}
            /\ Result.capex.capex_eur = FMul(FromInt(SizingResult.points), unit)

\* a DC 30kW result with at least one station
C5_Witness ==
    /\ Returned
    /\ SizingResult.hardware = "DC 30kW"
    /\ SizingResult.points > 0

(***************************************************************************)
(* C6: estimate never raises on a zero divisor: with diesel_km_per_l = 0,  *)
(* N = 0 or km_total_year = 0 the call returns a result.                   *)
(***************************************************************************)
C6_TotalOnZeroDivisor ==
    (pc # "call" /\ (in_p.diesel_km_per_l = Zero \/ in_N = 0 \/ in_km = 0))
        => Returned

(***************************************************************************)
(* C7: the example call estimate(11, 30000, default configuration).        *)
(***************************************************************************)
ExampleEleven == Returned /\ in_N = 11 /\ in_km = 30000 /\ in_p = DefaultParams

\* C7 as stated: 18.1 kWh per vehicle and day, EV energy cost 1597 EUR,
\* yearly delta 36903 EUR and payback 0.50 years, with AC, 6 stations,
\* capex 18600, diesel 22000 L and 38500 EUR, GO, 58.3 t CO2, 2915 trees.
C7_AsStated ==
    ExampleEleven =>
        /\ Within(Result.energy.kwh_per_vehicle_day, 1805, 1815, 100)
        /\ SizingResult.hardware = "AC 22kW (eff. 11kW)"
        /\ SizingResult.points = 6
        /\ Result.capex.capex_eur = FromInt(18600)
        /\ Esg.diesel_avoided_liters_year = FromInt(22000)
        /\ Economics.diesel_cost_year_eur = FromInt(38500)
        /\ Within(Economics.ev_energy_cost_year_eur, 15965, 15975, 10)
        /\ Within(Economics.delta_fossil_year_eur, 369025, 369035, 10)
        /\ Within(Economics.payback_years_hw_only, 495, 505, 1000)
        /\ Economics.decision = "GO"
        /\ Within(Esg.co2_avoided_tons_year, 5825, 5835, 100)
        /\ Esg.trees_equivalent = 2915

\* C7 amended: 27.5 kWh per vehicle and day (240 working days), EV energy
\* cost 15972 EUR, yearly delta 22528 EUR, payback 18600 / 22528 (0.83)
\* years; the other figures as stated.
C7_ExampleEleven ==
    ExampleEleven =>
        /\ Result.energy.kwh_per_vehicle_day = Dec(275, 10)
        /\ SizingResult.hardware = "AC 22kW (eff. 11kW)"
        /\ SizingResult.by_rotation = 6
        /\ SizingResult.points = 6
        /\ Result.capex.capex_eur = FromInt(18600)
        /\ Esg.diesel_avoided_liters_year = FromInt(22000)
        /\ Economics.diesel_cost_year_eur = FromInt(38500)
        /\ Economics.ev_energy_cost_year_eur = FromInt(15972)
        /\ Economics.delta_fossil_year_eur = FromInt(22528)
        /\ Economics.payback_years_hw_only = Dec(18600, 22528)
        /\ Within(Economics.payback_years_hw_only, 825, 835, 1000)
        /\ Economics.decision = "GO"
        /\ Esg.co2_avoided_tons_year = Dec(583, 10)
        /\ Esg.trees_equivalent = 2915

C7_Witness == ExampleEleven /\ SizingResult.points = 6 /\ Economics.decision = "GO"

(***************************************************************************)
(* C8: the example call estimate(8, 20000, default configuration).         *)
(***************************************************************************)
ExampleEight == Returned /\ in_N = 8 /\ in_km = 20000 /\ in_p = DefaultParams

\* C8 as stated: AC, 4 stations, GO, and 14666.7 L of diesel avoided a year
C8_AsStated ==
    ExampleEight =>
        /\ SizingResult.hardware = "AC 22kW (eff. 11kW)"
        /\ SizingResult.points = 4
        /\ Economics.decision = "GO"
        /\ Within(Esg.diesel_avoided_liters_year, 1466665, 1466675, 100)

\* C8 amended: AC, 4 stations, GO, and 160000 / 15 = 10666.7 L of diesel
\* avoided a year, from which the CO2 tons and the trees are derived.
C8_ExampleEight ==
    ExampleEight =>
        /\ SizingResult.hardware = "AC 22kW (eff. 11kW)"
        /\ SizingResult.by_rotation = 4
        /\ SizingResult.points = 4
        /\ Economics.decision = "GO"
        /\ Esg.diesel_avoided_liters_year = Dec(160000, 15)
        /\ Within(Esg.diesel_avoided_liters_year, 1066665, 1066675, 100)
        /\ Within(Esg.co2_avoided_tons_year, 28265, 28268, 1000)
        /\ Esg.trees_equivalent = 1413

C8_Witness == ExampleEight /\ SizingResult.points = 4 /\ Economics.decision = "GO"

(***************************************************************************)
(* C9: trees_equivalent is the integer part (rounded down, never to the    *)
(* nearest) of co2_avoided_tons_year * trees_per_ton_co2, where            *)
(* co2_avoided_tons_year = diesel_liters_year * diesel_kgco2_per_l / 1000. *)
(***************************************************************************)
C9_TreesTruncate ==
    Returned =>
        LET x == FMul(Esg.co2_avoided_tons_year, FromInt(in_p.trees_per_ton_co2))
            t == Esg.trees_equivalent
        IN  /\ Esg.co2_avoided_tons_year
                  = FDiv(FMul(Esg.diesel_avoided_liters_year, in_p.diesel_kgco2_per_l),
                         FromInt(1000))
            /\ DCmp(DInt(t), x) <= 0
            /\ DCmp(x, DInt(t + 1)) < 0

\* 1.999 t at 50 trees per ton: 99 trees, not 100
C9_Witness ==
    /\ Returned
    /\ Esg.co2_avoided_tons_year = Dec(1999, 1000)
    /\ in_p.trees_per_ton_co2 = 50
    /\ Esg.trees_equivalent = 99

(***************************************************************************)
(* C10: the ESG rating is B below 1 t of avoided CO2, A from 1 to below 3, *)
(* AA from 3 to below 10, AAA from 10 on: one label for every value.       *)
(***************************************************************************)
C10_RatingBands ==
    Returned =>
        LET c == Esg.co2_avoided_tons_year
            r == Esg.esg_rating
        IN  /\ r \in {"B", "A", "AA", "AAA"}
            /\ r = "B" <=> DCmp(c, DInt(1)) < 0
            /\ r = "A" <=> (DCmp(c, DInt(1)) >= 0 /\ DCmp(c, DInt(3)) < 0)
            /\ r = "AA" <=> (DCmp(c, DInt(3)) >= 0 /\ DCmp(c, DInt(10)) < 0)
            /\ r = "AAA" <=> DCmp(c, DInt(10)) >= 0

\* exactly 3 t: AA
C10_Witness ==
    /\ Returned
    /\ Esg.co2_avoided_tons_year = FromInt(3)
    /\ Esg.esg_rating = "AA"

(***************************************************************************)
(* The page.  Streamlit runs the script of app.py from top to bottom once  *)
(* when the page opens and once after every interaction of the user.       *)
(* st.session_state outlives the runs; a widget with a key keeps its value *)
(* in st.session_state under that key; a widget without a key is           *)
(* identified by its arguments, so that it starts again from value= when   *)
(* that argument differs from the one of the previous run; a button is     *)
(* True only in the run its press causes.  st.session_state is a function  *)
(* from the keys present to their values.  Of the sixteen sidebar inputs,  *)
(* the user edits working days and peak factor; the other fourteen stay at *)
(* their defaults, which are those of Params.                              *)
(***************************************************************************)
WorkingDaysKey == "Giorni lavorativi/anno"

\* the source writes the multiplication sign for x
PeakFactorKey == "Peak factor (x domanda gg)"

\* st.session_state.get(label, default)
Get(ss, label, default) == IF label \in DOMAIN ss THEN ss[label] ELSE default

\* st.session_state[k] = v
Put(ss, k, v) == [ x \in DOMAIN ss \cup {k} |-> IF x = k THEN v ELSE ss[x] ]

\* st.session_state.pop(k, None), for every k of ks
Pop(ss, ks) == [ x \in DOMAIN ss \ ks |-> ss[x] ]

\* p = Params(...), from the sidebar values of this run
ShellParams(ss) ==
    [ DefaultParams EXCEPT
        !.working_days = Get(ss, WorkingDaysKey, 240),
        !.peak_factor  = Get(ss, PeakFactorKey, Dec(125, 100)) ]

\* the value= arguments of the two number inputs
ValueArgs(ss) == [ N |-> Get(ss, "N", 11), km |-> Get(ss, "km", 30000) ]

\* what a keyless number input returns: the value the browser holds for it,
\* or its value= argument when that argument is not the previous run's
NumberInput(previous_arg, held, arg) == IF arg # previous_arg THEN arg ELSE held

NumberInputs(previous_args, held, args) ==
    [ N  |-> NumberInput(previous_args.N, held.N, args.N),
      km |-> NumberInput(previous_args.km, held.km, args.km) ]

\* the number of hundredths that f"{x:.2f}" prints for a double x >= 0:
\* the exact value, rounded to the nearest hundredth, ties to even
HundredthsNearest(h, i, c) == i + (IF c > 0 \/ (c = 0 /\ i % 2 = 1) THEN 1 ELSE 0)

HundredthsOf(h, i) ==
    HundredthsNearest(h, i, DCmp(DMul(DAdd(h, DNeg(DInt(i))), DInt(2)), DInt(1)))

Format2f(x) == HundredthsOf(DMul(x, DInt(100)), IntPart(DMul(x, DInt(100))))

\* int((p.peak_factor - 1) * 100)
PeakReadyPercent(p) == Trunc(FMul(FSub(p.peak_factor, FromInt(1)), FromInt(100)))

\* the one row of the export table
ExportRow(res, p) ==
    [ N                               |-> res.inputs.N,
      km_per_vehicle_year             |-> res.inputs.km_per_vehicle_year,
      km_total_year                   |-> res.inputs.km_total_year,
      working_days                    |-> p.working_days,
      peak_factor                     |-> p.peak_factor,
      kwh_total_day_avg               |-> res.energy.kwh_total_day_avg,
      kwh_total_day_peak              |-> res.energy.kwh_total_day_peak,
      kwh_total_year                  |-> res.energy.kwh_total_year,
      hardware                        |-> res.sizing.hardware,
      points                          |-> res.sizing.points,
      capex_eur                       |-> res.capex.capex_eur,
      delta_fossil_year_eur           |-> res.economics.delta_fossil_year_eur,
      payback_years_hw_only           |-> res.economics.payback_years_hw_only,
      decision                        |-> res.economics.decision,
      co2_avoided_tons_year           |-> res.esg.co2_avoided_tons_year,
      co2_avoided_kg_per_vehicle_year |-> res.esg.co2_avoided_kg_per_vehicle_year,
      co2_avoided_g_per_km            |-> res.esg.co2_avoided_g_per_km,
      diesel_avoided_liters_year      |-> res.esg.diesel_avoided_liters_year,
      trees_equivalent                |-> res.esg.trees_equivalent,
      esg_rating                      |-> res.esg.esg_rating ]

\* the right column: the hint, or the cached result with the pills, the
\* "su N gg" hint and the export row, all taken from this run's p
Render(ss, p) ==
    IF "last_result" \notin DOMAIN ss
    THEN [ kind |-> "info" ]
    ELSE [ kind              |-> "result",
           res               |-> ss["last_result"],
           peak_ready        |-> PeakReadyPercent(p),
           peak_factor       |-> Format2f(p.peak_factor),
           working_days      |-> p.working_days,
           hint_working_days |-> p.working_days,
           row               |-> ExportRow(ss["last_result"], p) ]

(***************************************************************************)
(* What the user enters: working days and peak factor in the sidebar (one  *)
(* step of the input above its default), N and km in the left column.      *)
(***************************************************************************)
WorkingDaysInputs == {240, 245}

PeakFactorInputs == { Dec(125, 100), Dec(130, 100) }

FleetInputs == {5, 11}

DistanceInputs == {20000, 30000}

\* the page once opened: the first script run has put the sidebar defaults
\* under their keys and shows the hint; estimate has not been called
ShellInit ==
    /\ session_state = (WorkingDaysKey :> 240) @@ (PeakFactorKey :> Dec(125, 100))
    /\ value = [ N |-> 11, km |-> 30000 ]
    /\ number_input = [ N |-> 11, km |-> 30000 ]
    /\ page = [ kind |-> "info" ]
    /\ in_N = 0
    /\ in_km = 0
    /\ in_p = DefaultParams
    /\ pc = "idle"
    /\ out = <<>>

\* a script run in which no button is True: ss is st.session_state at its
\* start and held the values the browser holds for the two number inputs
ScriptRun(ss, held) ==
    /\ value' = ValueArgs(ss)
    /\ number_input' = NumberInputs(value, held, value')
    /\ session_state' = ss
    /\ page' = Render(ss, ShellParams(ss))
    /\ UNCHANGED <<in_N, in_km, in_p, pc, out>>

\* the user changes "Giorni lavorativi/anno" in the sidebar
EditWorkingDays ==
    /\ pc \in {"idle", "returned"}
    /\ \E v \in WorkingDaysInputs \ {session_state[WorkingDaysKey]} :
          ScriptRun(Put(session_state, WorkingDaysKey, v), number_input)

\* the user changes "Peak factor" in the sidebar
EditPeakFactor ==
    /\ pc \in {"idle", "returned"}
    /\ \E v \in PeakFactorInputs \ {session_state[PeakFactorKey]} :
          ScriptRun(Put(session_state, PeakFactorKey, v), number_input)

\* the user changes "Numero veicoli (N)"
EditN ==
    /\ pc \in {"idle", "returned"}
    /\ \E v \in FleetInputs \ {number_input.N} :
          ScriptRun(session_state, [ number_input EXCEPT !.N = v ])

\* the user changes "Km annui medi per veicolo"
EditKm ==
    /\ pc \in {"idle", "returned"}
    /\ \E v \in DistanceInputs \ {number_input.km} :
          ScriptRun(session_state, [ number_input EXCEPT !.km = v ])

\* a script run that calls estimate(n, float(k), p) and caches the result.
\* N is at least 1 and working days at least 200 by the inputs' minima, and
\* the rotations and station capacities are positive: the call returns.
Compute(n, k) ==
    /\ in_N' = n
    /\ in_km' = k
    /\ in_p' = ShellParams(session_state)
    /\ pc' = "returned"
    /\ out' = <<estimate(in_N', FromInt(in_km'), in_p')>>
    /\ session_state' =
          Put(Put(Put(session_state, "N", in_N'), "km", in_km'), "last_result", out'[1])
    /\ page' = Render(session_state', in_p')

\* the user presses "Calcola GO/NO-GO": run is True
Calcola ==
    /\ pc \in {"idle", "returned"}
    /\ value' = ValueArgs(session_state)
    /\ number_input' = NumberInputs(value, number_input, value')
    /\ Compute(number_input'.N, number_input'.km)

\* the user presses "11 auto . 30.000 km"
Example11 ==
    /\ pc \in {"idle", "returned"}
    /\ value' = ValueArgs(session_state)
    /\ number_input' = NumberInputs(value, number_input, value')
    /\ Compute(11, 30000)

\* the user presses "8 auto . 20.000 km"
Example8 ==
    /\ pc \in {"idle", "returned"}
    /\ value' = ValueArgs(session_state)
    /\ number_input' = NumberInputs(value, number_input, value')
    /\ Compute(8, 20000)

\* the user presses "Reset": the run pops N, km and last_result after it
\* made the two number inputs, and st.rerun() starts a run without buttons
Reset ==
    /\ pc \in {"idle", "returned"}
    /\ value' = ValueArgs(Pop(session_state, {"N", "km", "last_result"}))
    /\ number_input' =
          NumberInputs(ValueArgs(session_state),
                       NumberInputs(value, number_input, ValueArgs(session_state)),
                       value')
    /\ session_state' = Pop(session_state, {"N", "km", "last_result"})
    /\ page' = Render(session_state', ShellParams(session_state'))
    /\ UNCHANGED <<in_N, in_km, in_p, pc, out>>

ShellNext ==
    \/ EditWorkingDays
    \/ EditPeakFactor
    \/ EditN
    \/ EditKm
    \/ Calcola
    \/ Example11
    \/ Example8
    \/ Reset

ShellSpec == ShellInit /\ [][ShellNext]_vars

(***************************************************************************)
(* C11: on the page, after any sequence of edits of the sidebar and of     *)
(* presses of Calcola, of an example button or of Reset, whenever a cached *)
(* result is shown, the working days and the peak factor shown with it     *)
(* (the two pills, the "su N gg" hint) and written into the export row are *)
(* those the cached result was computed with.  in_p is the p of the latest *)
(* call of estimate, and the cached result is always the latest one.       *)
(* The code does not keep this: the pills, the hint and the row read the   *)
(* p of the current run, and an edit of the sidebar changes p without      *)
(* recomputing last_result.                                                *)
(***************************************************************************)
C11_ShownParamsAreComputedParams ==
    page.kind = "result" =>
        /\ page.res = out[1]
        /\ page.working_days = in_p.working_days
        /\ page.hint_working_days = in_p.working_days
        /\ page.peak_factor = Format2f(in_p.peak_factor)
        /\ page.peak_ready = PeakReadyPercent(in_p)
        /\ page.row.working_days = in_p.working_days
        /\ page.row.peak_factor = in_p.peak_factor

====
